---- MODULE Spec2Model ----
(***************************************************************************)
(* Model of PgDbIdleAgent (pg-db-idle-agent/src/lib.rs): an agent owning a *)
(* PgDbAgentParams bundle; start() creates a tokio interval ticker and     *)
(* spawns a task that loops { ticker.tick().await; check_data().await },   *)
(* reporting an Err of check_data to the bundle's error_handler.           *)
(*                                                                         *)
(* Library behaviour the code relies on, modelled as documented:           *)
(*  - tokio::time::interval(period) panics when period is zero, its first  *)
(*    tick completes immediately, and with the default MissedTickBehavior  *)
(*    (Burst) every deadline is the previous deadline plus period;         *)
(*  - JoinHandle::abort() requests cancellation; the runtime drops the     *)
(*    task the next time it is suspended at an .await, and never polls it  *)
(*    again;                                                               *)
(*  - sqlx fetch_all decodes every row before it returns: it yields either *)
(*    the whole Vec<T> or one sqlx::Error.                                 *)
(***************************************************************************)
EXTENDS Integers, Sequences, FiniteSets, TLC

\* ---- bounds of the model ----
MaxEntries == 2      \* longest query_actions vector
MaxRows == 2         \* rows of the polled table; longest result of one query
MaxInterval == 2     \* longest interval_secs, in time units
MaxLag == 1          \* how far the clock may run past the ticker's deadline
MaxElapsed == 3      \* the time since start is counted below this
MaxTicks == 4        \* the ticks since start are counted below this

VARIABLES
    state,           \* lifecycle of the agent: Idle, Running, Cancelled, Panicked
    interval_secs,   \* params.interval_secs
    query_actions,   \* params.query_actions: the entries, in construction order
    pc,              \* position of the spawned task
    idx,             \* position of `for param in &self.params.query_actions`
    rows,            \* what is left of `for element in rows`
    untilDue,        \* ticker: its next deadline minus the current time
    elapsed,         \* time since start, while Counted
    tickCount,       \* ticks dispatched since start, while Counted
    fetched,         \* what fetch_all returned for the current param
    handled,         \* the elements the current param's action was invoked with
    tickLog,         \* the calls made in this tick and their outcomes, in order
    firedAfterAbort, \* the tick being processed was dispatched after abort()
    loops,           \* the spawned loop tasks the runtime still holds
    waited           \* time since new(), while start has not been called

vars == <<state, interval_secs, query_actions, pc, idx, rows, untilDue, elapsed,
          tickCount, fetched, handled, tickLog, firedAfterAbort, loops, waited>>

\* ---- values ----
\* the rows of the table, by id
Row == 1..MaxRows

\* a result: some rows of the table, each once, in the order the backend chose
RECURSIVE SeqsUpTo(_)
SeqsUpTo(k) ==
    IF k = 0 THEN {<<>>}
    ELSE LET shorter == SeqsUpTo(k - 1)
         IN shorter \cup {Append(s, r) : s \in {t \in shorter : Len(t) = k - 1}, r \in Row}

RowSeqs == {s \in SeqsUpTo(MaxRows) : \A i, j \in 1..Len(s) : i # j => s[i] # s[j]}

Entries == 1..Len(query_actions)

NoResult == [st |-> "none", rows |-> <<>>]

\* an entry of tickLog. op is "query" (fetch_all called), "ok" (it returned n
\* rows), "failed" (it returned the error err), "action" (param.action
\* called) or "error" (error_handler called with err)
Event(op, entry, n, err) == [op |-> op, entry |-> entry, n |-> n, err |-> err]

\* elapsed and tickCount are exact while both are below their bounds; once
\* one of them reaches its bound both are parked there
Counted == elapsed < MaxElapsed /\ tickCount < MaxTicks

Count(e, t) ==
    IF e < MaxElapsed /\ t < MaxTicks
    THEN [elapsed |-> e, tickCount |-> t]
    ELSE [elapsed |-> MaxElapsed, tickCount |-> MaxTicks]

\* the task is suspended at an .await (or spawned and not yet polled)
Suspended == pc \in {"sleep", "fetch"}

\* ---- PgDbAgentParams::new / PgDbIdleAgent::new ----
\* (mutant) new() already spawns the loop task
InitEager ==
    /\ state = "Idle"
    /\ interval_secs \in 0..MaxInterval
    /\ query_actions \in {[i \in 1..n |-> i] : n \in 0..MaxEntries}
    /\ pc = "sleep"
    /\ idx = 1
    /\ rows = <<>>
    /\ untilDue = 0
    /\ elapsed = 0
    /\ tickCount = 0
    /\ fetched = NoResult
    /\ handled = <<>>
    /\ tickLog = <<>>
    /\ firedAfterAbort = FALSE
    /\ loops = 1
    /\ waited = 0

Init ==
    /\ state = "Idle"
    /\ interval_secs \in 0..MaxInterval
    /\ query_actions \in {[i \in 1..n |-> i] : n \in 0..MaxEntries}
    /\ pc = "idle"
    /\ idx = 1
    /\ rows = <<>>
    /\ untilDue = 0
    /\ elapsed = 0
    /\ tickCount = 0
    /\ fetched = NoResult
    /\ handled = <<>>
    /\ tickLog = <<>>
    /\ firedAfterAbort = FALSE
    /\ loops = 0
    /\ waited = 0

\* ---- time passing between new() and start() ----
\* No ticker and no task exist yet: only the clock moves.
IdleWait ==
    /\ state = "Idle"
    /\ waited < MaxElapsed
    /\ waited' = waited + 1
    /\ UNCHANGED <<state, interval_secs, query_actions, pc, idx, rows, untilDue, elapsed,
                   tickCount, fetched, handled, tickLog, firedAfterAbort, loops>>

\* ---- start(self): time::interval(interval_secs), then tokio::task::spawn ----
\* (mutant) start(&self): the agent is not consumed and can be started again
StartSpawnShared ==
    /\ state \in {"Idle", "Running"}
    /\ loops < 2
    /\ interval_secs > 0
    /\ state' = "Running"
    /\ pc' = "sleep"
    /\ untilDue' = 0
    /\ loops' = loops + 1
    /\ waited' = 0
    /\ UNCHANGED <<interval_secs, query_actions, idx, rows, elapsed, tickCount,
                   fetched, handled, tickLog, firedAfterAbort>>

\* start takes self by value, so it is callable once, on an agent not yet
\* started. The first deadline of the ticker is the instant of its creation.
StartSpawn ==
    /\ state = "Idle"
    /\ interval_secs > 0
    /\ state' = "Running"
    /\ pc' = "sleep"
    /\ untilDue' = 0
    /\ loops' = loops + 1
    /\ waited' = 0
    /\ UNCHANGED <<interval_secs, query_actions, idx, rows, elapsed, tickCount,
                   fetched, handled, tickLog, firedAfterAbort>>

\* time::interval asserts that the period is non-zero: start panics before
\* tokio::task::spawn, the agent is dropped and no handle is returned
StartPanic ==
    /\ state = "Idle"
    /\ interval_secs = 0
    /\ state' = "Panicked"
    /\ pc' = "panicked"
    /\ waited' = 0
    /\ UNCHANGED <<interval_secs, query_actions, idx, rows, untilDue, elapsed,
                   tickCount, fetched, handled, tickLog, firedAfterAbort, loops>>

start == StartSpawn \/ StartPanic

\* ---- handle.abort() ----
\* callable any number of times on the handle start returned; a call after
\* the first changes nothing
abort ==
    /\ state \in {"Running", "Cancelled"}
    /\ state' = "Cancelled"
    /\ UNCHANGED <<interval_secs, query_actions, pc, idx, rows, untilDue, elapsed,
                   tickCount, fetched, handled, tickLog, firedAfterAbort, loops, waited>>

\* (mutant) the task is killed wherever it is, also between two handler calls
TaskDroppedAnywhere ==
    /\ state = "Cancelled"
    /\ pc \in {"sleep", "tick", "for", "fetch", "rows", "err"}
    /\ pc' = "aborted"
    /\ loops' = loops - 1
    /\ UNCHANGED <<state, interval_secs, query_actions, idx, rows, untilDue, elapsed,
                   tickCount, fetched, handled, tickLog, firedAfterAbort, waited>>

\* the runtime drops an aborted task at its suspension point
TaskDropped ==
    /\ state = "Cancelled"
    /\ Suspended
    /\ pc' = "aborted"
    /\ loops' = loops - 1
    /\ UNCHANGED <<state, interval_secs, query_actions, idx, rows, untilDue, elapsed,
                   tickCount, fetched, handled, tickLog, firedAfterAbort, waited>>

\* ---- the clock ----
\* Time passes while the task is suspended or a handler runs.
Advance ==
    /\ pc \in {"sleep", "fetch", "rows", "err"}
    /\ untilDue > -MaxLag
    /\ untilDue' = untilDue - 1
    /\ elapsed' = Count(elapsed + 1, tickCount).elapsed
    /\ tickCount' = Count(elapsed + 1, tickCount).tickCount
    /\ UNCHANGED <<state, interval_secs, query_actions, pc, idx, rows, fetched,
                   handled, tickLog, firedAfterAbort, loops, waited>>

\* ---- ticker.tick().await ----
\* Pending: the deadline has not been reached, the task is suspended
TickPending ==
    /\ pc = "tick"
    /\ untilDue > 0
    /\ pc' = "sleep"
    /\ UNCHANGED <<state, interval_secs, query_actions, idx, rows, untilDue, elapsed,
                   tickCount, fetched, handled, tickLog, firedAfterAbort, loops, waited>>

\* Ready: the deadline is reached; the ticker is re-armed for nextDue and
\* check_data() is entered.
DispatchTick(polled, nextDue) ==
    /\ polled
    /\ untilDue <= 0
    /\ untilDue' = nextDue
    /\ elapsed' = Count(elapsed, tickCount + 1).elapsed
    /\ tickCount' = Count(elapsed, tickCount + 1).tickCount
    /\ firedAfterAbort' = (state = "Cancelled")
    /\ fetched' = NoResult
    /\ handled' = <<>>
    /\ tickLog' = <<>>
    /\ idx' = 1
    /\ rows' = <<>>
    /\ pc' = "for"
    /\ UNCHANGED <<state, interval_secs, query_actions, loops, waited>>

\* the task reaches ticker.tick() while running, or is woken from it; a
\* suspended task is polled again only if it has not been aborted
TickPolled ==
    \/ pc = "tick"
    \/ pc = "sleep" /\ state = "Running"

\* (mutant) the ticker is not re-armed
TickReadyNoReset == DispatchTick(TickPolled, untilDue)

\* (mutant) MissedTickBehavior::Delay: the next deadline is a period from now
TickReadyDelay == DispatchTick(TickPolled, interval_secs)

\* (mutant) a due tick starts a new pass while a query is still awaited
TickReadyPreempting ==
    DispatchTick(TickPolled \/ (pc = "fetch" /\ state = "Running"), untilDue + interval_secs)

\* The next deadline is the previous deadline plus the period
\* (MissedTickBehavior::Burst, the default of time::interval).
TickReady == DispatchTick(TickPolled, untilDue + interval_secs)

\* ---- check_data(): for param in &self.params.query_actions ----
\* (mutant) the entries are visited in reverse: .iter().rev()
IssueQueryReversed ==
    /\ pc = "for"
    /\ idx \in Entries
    /\ tickLog' = Append(tickLog,
           Event("query", query_actions[Len(query_actions) + 1 - idx], 0, "none"))
    /\ fetched' = NoResult
    /\ handled' = <<>>
    /\ pc' = "fetch"
    /\ UNCHANGED <<state, interval_secs, query_actions, idx, rows, untilDue, elapsed,
                   tickCount, firedAfterAbort, loops, waited>>

\* sqlx::query_as(param.query).fetch_all(&param.pool).await: the query is
\* sent and the task is suspended until the backend answers
IssueQuery ==
    /\ pc = "for"
    /\ idx \in Entries
    /\ tickLog' = Append(tickLog, Event("query", query_actions[idx], 0, "none"))
    /\ fetched' = NoResult
    /\ handled' = <<>>
    /\ pc' = "fetch"
    /\ UNCHANGED <<state, interval_secs, query_actions, idx, rows, untilDue, elapsed,
                   tickCount, firedAfterAbort, loops, waited>>

\* (mutant) a pass over no entries is reported as an error
CheckDataOkEmptyErr ==
    /\ pc = "for"
    /\ idx \notin Entries
    /\ tickLog' = IF query_actions = <<>>
                  THEN Append(tickLog, Event("error", 0, 0, "exec"))
                  ELSE tickLog
    /\ pc' = "tick"
    /\ UNCHANGED <<state, interval_secs, query_actions, idx, rows, untilDue, elapsed,
                   tickCount, fetched, handled, firedAfterAbort, loops, waited>>

\* the loop is exhausted: Ok(()), back to ticker.tick().await
CheckDataOk ==
    /\ pc = "for"
    /\ idx \notin Entries
    /\ pc' = "tick"
    /\ UNCHANGED <<state, interval_secs, query_actions, idx, rows, untilDue, elapsed,
                   tickCount, fetched, handled, tickLog, firedAfterAbort, loops, waited>>

\* (mutant) the task is polled again although it was aborted
FetchOkAfterAbort(rs) ==
    /\ pc = "fetch"
    /\ fetched' = [st |-> "ok", rows |-> rs]
    /\ tickLog' = Append(tickLog, Event("ok", query_actions[idx], Len(rs), "none"))
    /\ rows' = rs
    /\ pc' = "rows"
    /\ UNCHANGED <<state, interval_secs, query_actions, idx, untilDue, elapsed,
                   tickCount, handled, firedAfterAbort, loops, waited>>

\* fetch_all returned Ok(rs): `let rows: Vec<T> = ...`
FetchOk(rs) ==
    /\ pc = "fetch"
    /\ state = "Running"
    /\ fetched' = [st |-> "ok", rows |-> rs]
    /\ tickLog' = Append(tickLog, Event("ok", query_actions[idx], Len(rs), "none"))
    /\ rows' = rs
    /\ pc' = "rows"
    /\ UNCHANGED <<state, interval_secs, query_actions, idx, untilDue, elapsed,
                   tickCount, handled, firedAfterAbort, loops, waited>>

\* (mutant) the failure is logged and the loop goes on with the next entry:
\* `if let Ok(rows) = ... { ... }` in place of `?`
FetchErrSwallowed(kind, decoded) ==
    /\ pc = "fetch"
    /\ state = "Running"
    /\ kind = "exec" => decoded = <<>>
    /\ fetched' = [st |-> kind, rows |-> decoded]
    /\ tickLog' = Append(tickLog, Event("failed", query_actions[idx], 0, kind))
    /\ idx' = idx + 1
    /\ pc' = "for"
    /\ UNCHANGED <<state, interval_secs, query_actions, rows, untilDue, elapsed,
                   tickCount, handled, firedAfterAbort, loops, waited>>

\* (mutant) rows are streamed: those decoded before the failure are dispatched
FetchErrPartial(kind, decoded) ==
    /\ pc = "fetch"
    /\ state = "Running"
    /\ kind = "exec" => decoded = <<>>
    /\ fetched' = [st |-> kind, rows |-> decoded]
    /\ handled' = decoded
    /\ tickLog' = tickLog \o [k \in 1..Len(decoded) |->
                                Event("action", query_actions[idx], 0, "none")]
                          \o <<Event("failed", query_actions[idx], 0, kind)>>
    /\ pc' = "err"
    /\ UNCHANGED <<state, interval_secs, query_actions, idx, rows, untilDue, elapsed,
                   tickCount, firedAfterAbort, loops, waited>>

\* fetch_all returned Err(e), `?` returns it from check_data. kind is "exec"
\* (the query failed) or "decode" (FromRow failed on a row, after `decoded`
\* rows had been decoded: they are dropped with the partial Vec).
FetchErr(kind, decoded) ==
    /\ pc = "fetch"
    /\ state = "Running"
    /\ kind = "exec" => decoded = <<>>
    /\ fetched' = [st |-> kind, rows |-> decoded]
    /\ tickLog' = Append(tickLog, Event("failed", query_actions[idx], 0, kind))
    /\ pc' = "err"
    /\ UNCHANGED <<state, interval_secs, query_actions, idx, rows, untilDue, elapsed,
                   tickCount, handled, firedAfterAbort, loops, waited>>

\* (mutant) the rows are taken from the back: rows.pop()
InvokeActionReversed ==
    /\ pc = "rows"
    /\ rows # <<>>
    /\ tickLog' = Append(tickLog, Event("action", query_actions[idx], 0, "none"))
    /\ handled' = Append(handled, rows[Len(rows)])
    /\ rows' = SubSeq(rows, 1, Len(rows) - 1)
    /\ UNCHANGED <<state, interval_secs, query_actions, pc, idx, untilDue, elapsed,
                   tickCount, fetched, firedAfterAbort, loops, waited>>

\* (param.action)(&element)
InvokeAction ==
    /\ pc = "rows"
    /\ rows # <<>>
    /\ tickLog' = Append(tickLog, Event("action", query_actions[idx], 0, "none"))
    /\ handled' = Append(handled, Head(rows))
    /\ rows' = Tail(rows)
    /\ UNCHANGED <<state, interval_secs, query_actions, pc, idx, untilDue, elapsed,
                   tickCount, fetched, firedAfterAbort, loops, waited>>

\* `for element in rows` is exhausted: next param
RowsDone ==
    /\ pc = "rows"
    /\ rows = <<>>
    /\ idx' = idx + 1
    /\ pc' = "for"
    /\ UNCHANGED <<state, interval_secs, query_actions, rows, untilDue, elapsed,
                   tickCount, fetched, handled, tickLog, firedAfterAbort, loops, waited>>

\* (mutant) the error is reported inside the for loop, which then goes on
\* with the next entry
InvokeErrorHandlerContinue ==
    /\ pc = "err"
    /\ tickLog' = Append(tickLog, Event("error", query_actions[idx], 0, fetched.st))
    /\ idx' = idx + 1
    /\ pc' = "for"
    /\ UNCHANGED <<state, interval_secs, query_actions, rows, untilDue, elapsed,
                   tickCount, fetched, handled, firedAfterAbort, loops, waited>>

\* (mutant) the error ends the task: check_data().await.unwrap()
InvokeErrorHandlerFatal ==
    /\ pc = "err"
    /\ pc' = "panicked"
    /\ UNCHANGED <<state, interval_secs, query_actions, idx, rows, untilDue, elapsed,
                   tickCount, fetched, handled, tickLog, firedAfterAbort, loops, waited>>

\* if let Err(e) = self.check_data().await { (self.params.error_handler)(e) }
InvokeErrorHandler ==
    /\ pc = "err"
    /\ tickLog' = Append(tickLog, Event("error", query_actions[idx], 0, fetched.st))
    /\ pc' = "tick"
    /\ UNCHANGED <<state, interval_secs, query_actions, idx, rows, untilDue, elapsed,
                   tickCount, fetched, handled, firedAfterAbort, loops, waited>>

Fetch ==
    \/ \E rs \in RowSeqs : FetchOk(rs)
    \/ \E kind \in {"exec", "decode"}, decoded \in {s \in RowSeqs : Len(s) < MaxRows} :
           FetchErr(kind, decoded)

check_data == IssueQuery \/ Fetch \/ InvokeAction \/ RowsDone \/ CheckDataOk

TaskStep == TickPending \/ TickReady \/ check_data \/ InvokeErrorHandler

Next ==
    \/ IdleWait
    \/ start
    \/ abort
    \/ TaskDropped
    \/ Advance
    \/ TickPending
    \/ TickReady
    \/ IssueQuery
    \/ Fetch
    \/ InvokeAction
    \/ RowsDone
    \/ CheckDataOk
    \/ InvokeErrorHandler

Spec == Init /\ [][Next]_vars

\* The runtime keeps polling a runnable task, the backend answers every
\* query, and time passes.
FairSpec ==
    /\ Spec
    /\ WF_vars(TaskStep)
    /\ WF_vars(TaskDropped)
    /\ WF_vars(Advance)

TypeOK ==
    /\ state \in {"Idle", "Running", "Cancelled", "Panicked"}
    /\ pc \in {"idle", "panicked", "sleep", "tick", "for", "fetch", "rows", "err", "aborted"}
    /\ interval_secs \in 0..MaxInterval
    /\ idx \in 1..(MaxEntries + 1)
    /\ rows \in RowSeqs
    /\ handled \in RowSeqs
    /\ fetched.st \in {"none", "ok", "exec", "decode"}
    /\ fetched.rows \in RowSeqs
    /\ untilDue \in (-MaxLag)..MaxInterval
    /\ elapsed \in 0..MaxElapsed
    /\ tickCount \in 0..MaxTicks
    /\ firedAfterAbort \in BOOLEAN
    /\ loops \in 0..1
    /\ waited \in 0..MaxElapsed

\* ---- what tickLog records ----
IsQuery(e) == e.op = "query"
IsError(e) == e.op = "error"

\* the entries whose query was issued, in the order of issue
QueriedIn(log) ==
    LET qs == SelectSeq(log, IsQuery) IN [k \in 1..Len(qs) |-> qs[k].entry]

\* the number of times entry i's action was invoked
ActionsIn(log, i) ==
    LET IsMine(e) == e.op = "action" /\ e.entry = i IN Len(SelectSeq(log, IsMine))

\* fetch_all has returned for entry i / returned Ok / returned Err
AnsweredIn(log, i) == \E k \in 1..Len(log) : log[k].op \in {"ok", "failed"} /\ log[k].entry = i
SucceededIn(log, i) == \E k \in 1..Len(log) : log[k].op = "ok" /\ log[k].entry = i
FailedIn(log, i) == \E k \in 1..Len(log) : log[k].op = "failed" /\ log[k].entry = i

\* the number of rows entry i's fetch_all returned (0 if it has not)
ReturnedIn(log, i) ==
    IF SucceededIn(log, i)
    THEN (CHOOSE e \in {log[k] : k \in 1..Len(log)} : e.op = "ok" /\ e.entry = i).n
    ELSE 0

Queried == QueriedIn(tickLog)
Errors == SelectSeq(tickLog, IsError)
WasQueried(i) == \E k \in 1..Len(Queried) : Queried[k] = i
Failed(i) == FailedIn(tickLog, i)
Reported(i) == \E k \in 1..Len(Errors) : Errors[k].entry = i

\* entry i's query succeeded and each of its rows was dispatched, in the log
DispatchedIn(log, i) == SucceededIn(log, i) /\ ActionsIn(log, i) = ReturnedIn(log, i)

\* the entry whose query was issued last in this tick (0 if none)
Current == IF Queried = <<>> THEN 0 ELSE Queried[Len(Queried)]

\* the rows of the current entry still to be dispatched
Pending == IF pc = "rows" THEN rows ELSE <<>>

\* a tick has been dispatched and the task is back at ticker.tick().await
TickComplete == pc \in {"tick", "sleep"} /\ tickCount > 0

\* a tick has just been dispatched: check_data() is entered
TickBegun == pc = "for" /\ idx = 1 /\ tickLog = <<>> /\ tickCount > 0

\* this step dispatches a tick: check_data() is entered
TickDispatched == pc # "for" /\ pc' = "for" /\ idx' = 1

\* everything the pass over the entries has started is finished
PassDone ==
    /\ Pending = <<>>
    /\ fetched.st = "ok" => handled = fetched.rows
    /\ \A i \in Entries :
           WasQueried(i) =>
               /\ AnsweredIn(tickLog, i)
               /\ SucceededIn(tickLog, i) => DispatchedIn(tickLog, i)
               /\ Failed(i) => Reported(i)

\* ---- C1 ----
\* C1: failure isolation within a tick. When a tick is complete, for every
\* entry i that failed the error handler has been invoked for it and every
\* later entry j > i has been queried and, if it succeeded, has had all its
\* rows dispatched.
C1_FailureIsolation ==
    TickComplete =>
        \A i \in Entries :
            Failed(i) =>
                /\ Reported(i)
                /\ \A j \in Entries :
                       j > i => /\ WasQueried(j)
                                /\ AnsweredIn(tickLog, j)
                                /\ SucceededIn(tickLog, j) => DispatchedIn(tickLog, j)

\* ---- C2 ----
\* C2 (as claimed): while less than one full interval has elapsed since
\* start, no tick has fired: no query was executed, no handler invoked.
C2_FirstTickAfterInterval ==
    (Counted /\ elapsed < interval_secs) => (tickCount = 0 /\ tickLog = <<>>)

\* C2 (amended): the first tick fires immediately on start and only the
\* later ones wait: the k-th tick is dispatched no earlier than k - 1 full
\* intervals after start, so while less than one interval has elapsed at
\* most one tick has been dispatched (and at most three by the time two
\* intervals have just elapsed).
C2_FirstTickImmediate ==
    (Counted /\ tickCount >= 1) => (tickCount - 1) * interval_secs <= elapsed

\* the first tick has dispatched a row with no time elapsed since start
C2_Witness ==
    /\ Counted
    /\ elapsed = 0
    /\ tickCount = 1
    /\ handled # <<>>

\* ---- C3 ----
\* C3: no failure is fatal to the loop. Whenever check_data has returned an
\* error, the loop goes on to dispatch a further tick unless it is cancelled,
\* and the task ends only after abort().
C3_LoopSurvivesFailure ==
    /\ [](pc = "err" => <>(state = "Cancelled" \/ TickBegun))
    /\ [](pc \in {"aborted", "panicked"} => state \in {"Cancelled", "Panicked"})

\* after a failed tick the running task is back at the ticker, the next
\* tick being due
C3_Witness ==
    /\ state = "Running"
    /\ pc = "tick"
    /\ Errors # <<>>
    /\ untilDue <= 0

\* ---- C4 ----
\* C4: cancellation stops dispatch. Once the aborted task has been dropped,
\* nothing more is dispatched; and a handler invoked after abort() belongs to
\* the tick that was in flight when abort() was called, never to a tick
\* dispatched after it.
C4_AbortStopsDispatch ==
    [][/\ pc = "aborted" => (pc' = "aborted" /\ tickLog' = tickLog)
       /\ (/\ state = "Cancelled"
           /\ Len(tickLog') > Len(tickLog)
           /\ tickLog'[Len(tickLog')].op \in {"action", "error"})
          => ~firedAfterAbort]_vars

\* a tick was dispatched after abort() (the task was running), its first
\* query was issued, and the task was dropped there with no handler invoked
C4_Witness ==
    /\ pc = "aborted"
    /\ firedAfterAbort
    /\ Len(tickLog) = 1
    /\ tickLog[1].op = "query"

\* ---- C5 ----
\* C5: every entry is polled in every tick, whatever the other entries do:
\* a completed tick has executed the query of every entry.
C5_EveryEntryPolled ==
    TickComplete => \A i \in Entries : WasQueried(i)

\* ---- C6 ----
\* C6: within a tick the entries are processed in construction order, one at
\* a time: the k-th query issued is entry k's, it is issued only when every
\* earlier entry's query has completed and all of its rows have been
\* dispatched, and every answer and handler invocation belongs to the entry
\* queried last.
C6_SequentialInOrder ==
    \A p \in 1..Len(tickLog) :
        LET before == SubSeq(tickLog, 1, p - 1)
            e == tickLog[p].entry
        IN IF tickLog[p].op = "query"
           THEN /\ e = Len(QueriedIn(before)) + 1
                /\ \A j \in 1..(e - 1) :
                       /\ AnsweredIn(before, j)
                       /\ SucceededIn(before, j) => DispatchedIn(before, j)
           ELSE /\ QueriedIn(before) # <<>>
                /\ e = QueriedIn(before)[Len(QueriedIn(before))]

\* the second entry's query is in flight after both rows of the first were
\* dispatched
C6_Witness ==
    /\ pc = "fetch"
    /\ idx = 2
    /\ Queried = <<1, 2>>
    /\ ActionsIn(tickLog, 1) = 2

\* ---- C7 ----
\* C7: row dispatch is exact and order-preserving. The rows the current
\* entry's action has been invoked with, followed by those still to be
\* dispatched, are the rows its query returned, in that order, and they were
\* handed to that entry's action; every entry has had as many action
\* invocations as rows returned and dispatched, none if its query did not
\* succeed.
C7_ExactDispatch ==
    /\ fetched.st = "ok" => handled \o Pending = fetched.rows
    /\ fetched.st # "ok" => handled = <<>>
    /\ \A i \in 1..MaxEntries :
           ActionsIn(tickLog, i) =
               IF i = Current THEN Len(handled) ELSE ReturnedIn(tickLog, i)
    /\ Current # 0 /\ fetched.st = "ok" => ReturnedIn(tickLog, Current) = Len(fetched.rows)

\* a completed tick in which the last entry returned rows 2, 1 and its
\* action was handed 2, 1, after an earlier entry had its own row
C7_Witness ==
    /\ TickComplete
    /\ Current = 2
    /\ ActionsIn(tickLog, 1) = 1
    /\ fetched.rows = <<2, 1>>
    /\ handled = <<2, 1>>

\* ---- C8 ----
\* C8: no partial dispatch on failure. An entry whose query or decoding
\* failed has had no action invocation in this tick, and once check_data has
\* returned, the error handler has been invoked exactly once, with that
\* failure, whichever its kind.
C8_NoPartialDispatch ==
    \A i \in Entries :
        Failed(i) =>
            /\ i = Current
            /\ fetched.st \in {"exec", "decode"}
            /\ handled = <<>>
            /\ ActionsIn(tickLog, i) = 0
            /\ Errors = IF pc = "err" THEN <<>>
                        ELSE <<Event("error", i, 0, fetched.st)>>

\* a decode failure after a row had been decoded: reported, nothing dispatched
C8_Witness ==
    /\ pc = "tick"
    /\ fetched.st = "decode"
    /\ fetched.rows # <<>>
    /\ handled = <<>>
    /\ Len(Errors) = 1

\* ---- C9 ----
\* C9: ticks never overlap. A tick is dispatched only when everything the
\* previous tick started (queries, action and error handler invocations) is
\* finished and the task is back at the ticker.
C9_TicksNeverOverlap ==
    [][TickDispatched => (pc \in {"tick", "sleep"} /\ PassDone)]_vars

\* the second tick is dispatched late: the first pass over the entries ended
\* after the second tick was due
C9_Witness ==
    /\ TickBegun
    /\ tickCount = 2
    /\ untilDue < interval_secs
    /\ query_actions # <<>>

\* ---- C10 ----
\* C10 (as claimed): each tick fires one interval after the previous tick
\* was dispatched, so missed boundaries are not made up: when a pass over
\* the entries ends with the next tick already due, the tick dispatched then
\* is followed by a full interval.
C10_NoCatchUp ==
    [][(TickDispatched /\ pc = "tick" /\ tickCount >= 1) => untilDue' = interval_secs]_vars

\* C10 (amended): the timer is a fixed-rate timer with burst catch-up: the
\* next tick is always due tickCount intervals after start, whenever the
\* earlier ticks were dispatched; a tick is never dispatched before it is
\* due, and ticks missed by a slow pass are made up back to back.
C10_FixedRate ==
    (Counted /\ state \in {"Running", "Cancelled"}) =>
        untilDue + elapsed = tickCount * interval_secs

\* a tick dispatched late, with the next one already due: it follows at once
C10_Witness ==
    /\ TickBegun
    /\ Counted
    /\ tickCount >= 2
    /\ untilDue <= 0
    /\ state = "Running"

\* ---------------------------------------------------------------------------
\* C11: the state of an agent is always one of Idle, Running, Cancelled; it
\* changes only from Idle to Running (on start) and from Running to Cancelled
\* (on a cancellation request); Cancelled is terminal, whatever is called
\* (repeated abort included), and an agent is started at most once.
\* Violated: start on an agent whose interval_secs is zero panics in
\* time::interval, and the agent ends in none of the three states.
C11_Lifecycle ==
    /\ [](state \in {"Idle", "Running", "Cancelled"})
    /\ [][state' # state =>
            \/ state = "Idle" /\ state' = "Running"
            \/ state = "Running" /\ state' = "Cancelled"]_vars

\* the spawned loop task exists: it is somewhere in its loop
LoopAlive == pc \in {"sleep", "tick", "for", "fetch", "rows", "err"}

C13_ConstructionInert ==
    state = "Idle" =>
        /\ pc = "idle"
        /\ loops = 0
        /\ tickCount = 0
        /\ elapsed = 0
        /\ tickLog = <<>>
        /\ fetched = NoResult
        /\ handled = <<>>

\* an agent with entries and a non-zero interval has been left unstarted for
\* longer than its interval
C13_Witness ==
    /\ state = "Idle"
    /\ query_actions # <<>>
    /\ interval_secs > 0
    /\ waited > interval_secs

\* ---------------------------------------------------------------------------
\* C14: a zero interval_secs is no error condition: new accepts it, start
\* accepts it and returns a handle, and the agent then busy-loops, processing
\* ticks back to back; it is never rejected and never ends abnormally.
\* Violated: time::interval panics on a zero period, so start panics, no
\* task is spawned and no tick is ever processed.
C14_ZeroIntervalBusyLoop ==
    (interval_secs = 0 /\ state # "Idle") =>
        /\ state \in {"Running", "Cancelled"}
        /\ pc # "panicked"
        /\ loops = 1 \/ pc = "aborted"

\* ---------------------------------------------------------------------------
\* C15: an empty query_actions is legal and makes every tick a no-op: the
\* agent starts and its loop keeps dispatching ticks, but no query is ever
\* executed and neither a record handler nor the error handler is ever
\* invoked; after each tick another one is dispatched, unless the agent is
\* cancelled.
C15_EmptyIsNoOp ==
    /\ [](query_actions = <<>> =>
            /\ tickLog = <<>>
            /\ fetched = NoResult
            /\ handled = <<>>
            /\ rows = <<>>
            /\ pc \notin {"fetch", "rows", "err"}
            /\ (interval_secs > 0 /\ state # "Idle") => state \in {"Running", "Cancelled"})
    /\ []((query_actions = <<>> /\ pc \in {"tick", "sleep"}) =>
            <>(state = "Cancelled" \/ TickBegun))

\* an agent without entries is running and has completed its third tick
C15_Witness ==
    /\ query_actions = <<>>
    /\ state = "Running"
    /\ Counted
    /\ tickCount = 3
    /\ pc = "sleep"

\* ---------------------------------------------------------------------------
\* C17: in every tick the error handler is invoked at most once, and its
\* invocation is the last handler invocation of the tick: once it has been
\* invoked the loop only waits for the next tick, no record handler of any
\* entry is invoked before that tick begins.
C17_ErrorHandlerLast ==
    /\ Len(Errors) <= 1
    /\ \A p \in 1..Len(tickLog) : tickLog[p].op = "error" => p = Len(tickLog)
    /\ Errors # <<>> => pc \in {"tick", "sleep", "aborted"}
    /\ pc = "err" => (tickLog # <<>> /\ tickLog[Len(tickLog)].op = "failed")

\* entry 1 had both of its rows dispatched, then entry 2 failed and the error
\* handler was invoked
C17_Witness ==
    /\ TickComplete
    /\ ActionsIn(tickLog, 1) = 2
    /\ Failed(2)
    /\ Len(Errors) = 1
    /\ tickLog[Len(tickLog)] = Event("error", 2, 0, fetched.st)

\* ---------------------------------------------------------------------------
\* C18: the entries whose query is executed in a tick are a prefix of the
\* construction order: an entry is queried only if every earlier entry
\* succeeded in that tick, and a completed tick has queried the entries up to
\* and including the first failing one, or all of them when none failed.
C18_QueriedPrefix ==
    LET queried == Queried
        failing == {i \in Entries : Failed(i)}
    IN  /\ queried = [k \in 1..Len(queried) |-> k]
        /\ \A i \in Entries :
               (\E k \in 1..Len(queried) : queried[k] = i) =>
                   \A j \in 1..(i - 1) : SucceededIn(tickLog, j)
        /\ TickComplete =>
               IF failing = {}
               THEN Len(queried) = Len(query_actions)
               ELSE /\ Cardinality(failing) = 1
                    /\ Len(queried) \in failing

\* a tick is over in which the first of two entries failed: it alone was queried
C18_Witness ==
    /\ TickComplete
    /\ Len(query_actions) = 2
    /\ Failed(1)
    /\ Queried = <<1>>
    /\ Reported(1)

\* ---------------------------------------------------------------------------
\* C19: a cancellation takes effect only where the loop is suspended, waiting
\* for the tick or for fetch_all, never between two record-handler
\* invocations: a task aborted while it dispatches rows goes on to the end of
\* the result, and when the task is dropped every entry of the tick that had
\* its handler invoked at all had it invoked for every row of its result.
C19_AbortAllOrNothing ==
    [][/\ (pc # "aborted" /\ pc' = "aborted") =>
              /\ state = "Cancelled"
              /\ pc \in {"sleep", "fetch"}
              /\ Pending = <<>>
              /\ fetched.st = "ok" => handled = fetched.rows
              /\ \A i \in Entries :
                     ActionsIn(tickLog, i) > 0 => DispatchedIn(tickLog, i)
       /\ (state = "Cancelled" /\ pc = "rows") =>
              /\ pc' \in {"rows", "for"}
              /\ handled' \o Pending' = fetched.rows
      ]_vars

\* the task was dropped while it awaited the query of entry 2, after both
\* rows of entry 1 had been dispatched
C19_Witness ==
    /\ pc = "aborted"
    /\ Queried = <<1, 2>>
    /\ ~AnsweredIn(tickLog, 2)
    /\ ReturnedIn(tickLog, 1) = 2
    /\ ActionsIn(tickLog, 1) = 2
====
